---- MODULE Spec2Model ----
(***************************************************************************)
(* The customer tool of src/main.py: mcp_tool turns an intent into an      *)
(* OData path (query_mcp_for_odata), fetches it with a fresh bearer token  *)
(* (call_odata, get_access_token), distills the answer                     *)
(* (query_mcp_for_changes) and wraps it into an McpResponse.               *)
(*                                                                         *)
(* Texts are TLC strings; a character is a string of length one.           *)
(* Python values are records [type, num, str, items].                      *)
(***************************************************************************)
EXTENDS Integers, Sequences, FiniteSets, TLC

VARIABLES MCP_AVAILABLE, pc, context, odata_query, access_token,
          odata_response, result, translated_by, distilled_by, net, served

vars == <<MCP_AVAILABLE, pc, context, odata_query, access_token,
          odata_response, result, translated_by, distilled_by, net, served>>

\* ------------------------------------------------------------------ bounds

\* invocation slots (concurrent calls of the tool)
NumInv == 2
\* invocations served one after another in a behaviour
MaxCalls == 2
\* fragments an intent is put together from
MaxFrags == 3
\* characters of a response body
MaxBody == 2
\* rows of a payload's row list
MaxRows == 2
\* fields of a row
MaxFields == 2

Inv == 1..NumInv

\* ------------------------------------------------------------ text helpers

At(s, i) == SubSeq(s, i, i)

\* Python's  sub in s
Contains(s, sub) ==
    \E i \in 1..(Len(s) - Len(sub) + 1) : SubSeq(s, i, i + Len(sub) - 1) = sub

UpperAlpha == "ABCDEFGHIJKLMNOPQRSTUVWXYZ"
LowerAlpha == "abcdefghijklmnopqrstuvwxyz"
Digits == "0123456789"

LowerChar(c) ==
    IF \E k \in 1..26 : At(UpperAlpha, k) = c
    THEN At(LowerAlpha, CHOOSE k \in 1..26 : At(UpperAlpha, k) = c)
    ELSE c

RECURSIVE Lower(_)
\* str.lower()
Lower(s) == IF s = "" THEN "" ELSE LowerChar(Head(s)) \o Lower(Tail(s))

IsDigit(c) == Len(c) = 1 /\ Contains(Digits, c)
IsSpace(c) == c \in {" ", "\t", "\n", "\r", "\f"}
\* the characters of the pattern class \w
IsWord(c) == Len(c) = 1 /\ (Contains(LowerAlpha, c) \/ Contains(UpperAlpha, c)
                            \/ Contains(Digits, c) \/ c = "_")

RECURSIVE IntStr(_)
\* str(n) of an int
IntStr(n) ==
    IF n < 0 THEN "-" \o IntStr(0 - n)
    ELSE IF n < 10 THEN At(Digits, n + 1)
    ELSE IntStr(n \div 10) \o At(Digits, (n % 10) + 1)

\* ------------------------------------------------------- the regex of line 45

\* the last index of the run of white space that starts at j (j-1: no run)
SpaceRunEnd(s, j) ==
    CHOOSE e \in (j - 1)..Len(s) :
        /\ \A x \in j..e : IsSpace(At(s, x))
        /\ (e = Len(s) \/ ~IsSpace(At(s, e + 1)))

\* the last index of the run of digits that starts at j (j-1: no run)
DigitRunEnd(s, j) ==
    CHOOSE e \in (j - 1)..Len(s) :
        /\ \A x \in j..e : IsDigit(At(s, x))
        /\ (e = Len(s) \/ ~IsDigit(At(s, e + 1)))

\* \btop\s+(\d+)\b matches with its "t" at index i
TopMatchAt(s, i) ==
    /\ i + 2 <= Len(s)
    /\ SubSeq(s, i, i + 2) = "top"
    /\ (i = 1 \/ ~IsWord(At(s, i - 1)))
    /\ LET j == SpaceRunEnd(s, i + 3) + 1
           k == DigitRunEnd(s, j)
       IN  /\ j > i + 3
           /\ k >= j
           /\ (k = Len(s) \/ ~IsWord(At(s, k + 1)))

\* group(1) of the match at i
TopGroupAt(s, i) ==
    LET j == SpaceRunEnd(s, i + 3) + 1
    IN  SubSeq(s, j, DigitRunEnd(s, j))

\* re.search(r'\btop\s+(\d+)\b', s): the leftmost match, or none
re_search(s) ==
    IF \E i \in 1..Len(s) : TopMatchAt(s, i)
    THEN LET i == CHOOSE i \in 1..Len(s) :
                      TopMatchAt(s, i) /\ \A h \in 1..(i - 1) : ~TopMatchAt(s, h)
         IN  [matched |-> TRUE, group1 |-> TopGroupAt(s, i)]
    ELSE [matched |-> FALSE, group1 |-> ""]

\* -------------------------------------------- LocalMCP.generate_odata_query

\* a slip: the intent is not lower-cased
generate_odata_query_nolower(intent) ==
    LET intent_lower == intent
    IN  IF Contains(intent_lower, "top") /\ Contains(intent_lower, "customers")
        THEN LET m == re_search(intent_lower)
                 top_n == IF m.matched THEN m.group1 ELSE "10"
             IN  "CustomersV3?$top=" \o top_n
        ELSE IF Contains(intent_lower, "customers")
                \/ Contains(intent_lower, "get customers")
        THEN "CustomersV3?$top=50"
        ELSE "CustomersV3?$top=10"

\* a slip: "top" without a number falls through to the "customers" rule
generate_odata_query_fallthrough(intent) ==
    LET intent_lower == Lower(intent)
        m == re_search(intent_lower)
    IN  IF Contains(intent_lower, "top") /\ Contains(intent_lower, "customers")
           /\ m.matched
        THEN "CustomersV3?$top=" \o m.group1
        ELSE IF Contains(intent_lower, "customers")
                \/ Contains(intent_lower, "get customers")
        THEN "CustomersV3?$top=50"
        ELSE "CustomersV3?$top=10"

generate_odata_query(intent) ==
    LET intent_lower == Lower(intent)
    IN  IF Contains(intent_lower, "top") /\ Contains(intent_lower, "customers")
        THEN LET m == re_search(intent_lower)
                 top_n == IF m.matched THEN m.group1 ELSE "10"
             IN  "CustomersV3?$top=" \o top_n
        ELSE IF Contains(intent_lower, "customers")
                \/ Contains(intent_lower, "get customers")
        THEN "CustomersV3?$top=50"
        ELSE "CustomersV3?$top=10"

\* ------------------------------------------------------------ Python values

PyNone == [type |-> "NoneType", num |-> 0, str |-> "", items |-> <<>>]
PyInt(k) == [type |-> "int", num |-> k, str |-> "", items |-> <<>>]
PyStr(x) == [type |-> "str", num |-> 0, str |-> x, items |-> <<>>]
PyList(xs) == [type |-> "list", num |-> 0, str |-> "", items |-> xs]
\* one key: value entry of a dict, in insertion order
Entry(key, v) == [type |-> "item", num |-> 0, str |-> key, items |-> <<v>>]
PyDict(entries) == [type |-> "dict", num |-> 0, str |-> "", items |-> entries]

\* key in d
HasKey(d, key) == \E x \in 1..Len(d.items) : d.items[x].str = key

\* d[key]
DictItem(d, key) ==
    d.items[CHOOSE x \in 1..Len(d.items) : d.items[x].str = key].items[1]

\* d.get(key)
DictGet(d, key) == IF HasKey(d, key) THEN DictItem(d, key) ELSE PyNone

\* bool(v)
Truthy(v) ==
    CASE v.type = "NoneType" -> FALSE
      [] v.type = "int" -> v.num # 0
      [] v.type = "str" -> v.str # ""
      [] OTHER -> v.items # <<>>

\* a or b
Or(a, b) == IF Truthy(a) THEN a ELSE b

RECURSIVE EscapeStr(_, _)
\* the characters of s as repr writes them between the quotes q
EscapeStr(s, q) ==
    IF s = "" THEN ""
    ELSE LET c == Head(s)
             e == CASE c = "\\" -> "\\\\"
                    [] c = "\n" -> "\\n"
                    [] c = "\r" -> "\\r"
                    [] c = "\t" -> "\\t"
                    [] c = q -> "\\" \o q
                    [] OTHER -> c
         IN  e \o EscapeStr(Tail(s), q)

\* repr(s) of a str
ReprStr(s) ==
    LET q == IF Contains(s, "'") /\ ~Contains(s, "\"") THEN "\"" ELSE "'"
    IN  q \o EscapeStr(s, q) \o q

RECURSIVE Repr(_), ReprItems(_)
\* repr(v)
Repr(v) ==
    CASE v.type = "NoneType" -> "None"
      [] v.type = "int" -> IntStr(v.num)
      [] v.type = "str" -> ReprStr(v.str)
      [] v.type = "item" -> ReprStr(v.str) \o ": " \o Repr(v.items[1])
      [] v.type = "list" -> "[" \o ReprItems(v.items) \o "]"
      [] v.type = "dict" -> "{" \o ReprItems(v.items) \o "}"

ReprItems(xs) ==
    IF xs = <<>> THEN ""
    ELSE IF Len(xs) = 1 THEN Repr(xs[1])
    ELSE Repr(xs[1]) \o ", " \o ReprItems(Tail(xs))

\* str(v), which is also what an f-string writes for {v}
Str(v) == IF v.type = "str" THEN v.str ELSE Repr(v)

RECURSIVE JoinLines(_)
\* "\n".join(lines)
JoinLines(lines) ==
    IF lines = <<>> THEN ""
    ELSE IF Len(lines) = 1 THEN lines[1]
    ELSE lines[1] \o "\n" \o JoinLines(Tail(lines))

\* ------------------------------------------ LocalMCP.process_odata_response

IdKeys == <<"PartyNumber", "CustomerAccount", "AccountNumber", "Id", "RecId">>
NameKeys == <<"Name", "PartyLegalName", "DisplayName", "PartyName", "CustomerName">>

\* a slip: CustomerAccount is tried before PartyNumber
RowLine_swapped(r) ==
    LET cust_id == Or(DictGet(r, "CustomerAccount"), Or(DictGet(r, "PartyNumber"),
                   Or(DictGet(r, "AccountNumber"), Or(DictGet(r, "Id"),
                   DictGet(r, "RecId")))))
        name == Or(DictGet(r, "Name"), Or(DictGet(r, "PartyLegalName"),
                Or(DictGet(r, "DisplayName"), Or(DictGet(r, "PartyName"),
                DictGet(r, "CustomerName")))))
    IN  Str(Or(cust_id, PyStr("unknown"))) \o ": " \o Str(Or(name, PyStr("unknown")))

\* the body of the loop: one row's line
RowLine(r) ==
    LET cust_id == Or(DictGet(r, "PartyNumber"), Or(DictGet(r, "CustomerAccount"),
                   Or(DictGet(r, "AccountNumber"), Or(DictGet(r, "Id"),
                   DictGet(r, "RecId")))))
        name == Or(DictGet(r, "Name"), Or(DictGet(r, "PartyLegalName"),
                Or(DictGet(r, "DisplayName"), Or(DictGet(r, "PartyName"),
                DictGet(r, "CustomerName")))))
    IN  Str(Or(cust_id, PyStr("unknown"))) \o ": " \o Str(Or(name, PyStr("unknown")))

\* r.get on a value that is no dict raises AttributeError; str(e)
NoGetError(r) == "'" \o r.type \o "' object has no attribute 'get'"

process_odata_response(raw) ==
    IF raw.type = "dict" /\ HasKey(raw, "value") /\ DictItem(raw, "value").type = "list"
    THEN LET rows == DictItem(raw, "value").items
         IN  IF \E x \in 1..Len(rows) : rows[x].type # "dict"
             THEN LET x == CHOOSE x \in 1..Len(rows) :
                               rows[x].type # "dict" /\ \A h \in 1..(x - 1) : rows[h].type = "dict"
                  IN  "Error processing response: " \o NoGetError(rows[x])
             ELSE IF rows # <<>>
             THEN JoinLines([x \in 1..Len(rows) |-> RowLine(rows[x])])
             ELSE "No customers found in response."
    ELSE IF raw.type = "str" THEN raw.str
    ELSE Str(raw)

\* ------------------------------------------------------------ configuration

\* os.getenv("TENANT_ID"), os.getenv("D365_ENV_URL"): read once, never written
TENANT_ID == "tenant"
D365_ENV_URL == "https://erp.example"

\* ------------------------------------------------- what the servers answer

\* requests.post / requests.get raising (no connection, a timeout); str(e) = msg
Raises(msg) ==
    [raises |-> TRUE, error |-> msg, status_code |-> 0, text |-> "",
     is_json |-> FALSE, json |-> PyNone]

\* a response whose body parses as the JSON value v (response.json() = v);
\* its text is read nowhere
JsonResponse(code, v) ==
    [raises |-> FALSE, error |-> "", status_code |-> code, text |-> "",
     is_json |-> TRUE, json |-> v]

\* a response whose body is the text body, which is not JSON
TextResponse(code, body) ==
    [raises |-> FALSE, error |-> "", status_code |-> code, text |-> body,
     is_json |-> FALSE, json |-> PyNone]

\* what an external mcp.generate_odata_query / mcp.process_odata_response does.
\* The name mcp is the imported package (line 24) and, from line 144 on, the
\* FastMCP server object: whether the attribute exists and what the call does
\* is the library's matter, so a call either raises or returns a text.
DelegateRaises == [raises |-> TRUE, value |-> ""]
DelegateReturns(text) == [raises |-> FALSE, value |-> text]

\* --------------------------------------------------------- get_access_token

token_url == "https://login.microsoftonline.com/" \o TENANT_ID \o "/oauth2/token"

\* a slip: the status is not looked at, an error body is read like a token
get_access_token_unchecked(r) ==
    IF r.raises THEN [raised |-> TRUE, error |-> r.error, value |-> PyNone]
    ELSE IF r.is_json /\ r.json.type = "dict"
    THEN [raised |-> FALSE, error |-> "", value |-> DictGet(r.json, "access_token")]
    ELSE [raised |-> FALSE, error |-> "", value |-> PyNone]

\* what get_access_token does with the answer r to its POST: the value it
\* returns, or the exception it lets out (error is str(e))
get_access_token(r) ==
    IF r.raises THEN [raised |-> TRUE, error |-> r.error, value |-> PyNone]
    ELSE IF r.status_code = 200
    THEN IF ~r.is_json
         THEN [raised |-> TRUE, error |-> "Expecting value: line 1 column 1 (char 0)",
               value |-> PyNone]
         ELSE IF r.json.type # "dict"
         THEN [raised |-> TRUE,
               error |-> "'" \o r.json.type \o "' object has no attribute 'get'",
               value |-> PyNone]
         ELSE [raised |-> FALSE, error |-> "",
               value |-> DictGet(r.json, "access_token")]
    ELSE [raised |-> TRUE,
          error |-> "Token request failed: " \o IntStr(r.status_code) \o " - " \o r.text,
          value |-> PyNone]

\* --------------------------------------------------------------- call_odata

full_url(query_path) == D365_ENV_URL \o "/data" \o "/" \o query_path

\* a slip: the bearer token is kept in a global and sent by every invocation
Authorization_shared(i) ==
    "Bearer " \o Str(access_token[CHOOSE j \in Inv : \A h \in Inv : j <= h])

\* the Authorization header invocation i sends
Authorization(i) == "Bearer " \o Str(access_token[i])

\* a slip: the error variant loses the status code
NormalizeResponse_nostatus(r) ==
    IF r.status_code = 200
    THEN IF r.is_json THEN r.json ELSE PyDict(<<Entry("_raw_text", PyStr(r.text))>>)
    ELSE PyDict(<<Entry("error", PyStr(r.text))>>)

\* what call_odata returns for the answer r to its GET
NormalizeResponse(r) ==
    IF r.status_code = 200
    THEN IF r.is_json THEN r.json
         ELSE PyDict(<<Entry("_raw_text", PyStr(r.text))>>)
    ELSE PyDict(<<Entry("error", PyStr(r.text)),
                  Entry("status_code", PyInt(r.status_code))>>)

\* ------------------------------------------------------------------ results

NoResult ==
    [status_code |-> 0, kind |-> "none", detail |-> "", message |-> "",
     processedContext |-> ""]

\* a slip: the distilled text is left out of the message
McpResponse_bare(processed_context) ==
    [status_code |-> 0, kind |-> "McpResponse", detail |-> "",
     message |-> "Hello, here is the information you requested:\n",
     processedContext |-> processed_context]

\* lines 161-163
McpResponse(processed_context) ==
    [status_code |-> 0, kind |-> "McpResponse", detail |-> "",
     message |-> "Hello, here is the information you requested:\n" \o processed_context,
     processedContext |-> processed_context]

\* lines 164-166: str(e) becomes the detail
HTTPException(code, msg) ==
    [status_code |-> code, kind |-> "HTTPException", detail |-> msg,
     message |-> "", processedContext |-> ""]

\* one outbound request and its answer, as the network saw them
Request(method, url, auth, r) ==
    [method |-> method, url |-> url, authorization |-> auth, response |-> r]

\* --------------------------------------------------------------------- Init

Init ==
    /\ MCP_AVAILABLE \in BOOLEAN
    /\ pc = [i \in Inv |-> "idle"]
    /\ context = [i \in Inv |-> ""]
    /\ odata_query = [i \in Inv |-> ""]
    /\ access_token = [i \in Inv |-> PyNone]
    /\ odata_response = [i \in Inv |-> PyNone]
    /\ result = [i \in Inv |-> NoResult]
    /\ translated_by = [i \in Inv |-> ""]
    /\ distilled_by = [i \in Inv |-> ""]
    /\ net = [i \in Inv |-> <<>>]
    /\ served = <<>>

\* ------------------------------------------------------------------ actions

\* invocations begun so far
Calls == Len(served) + Cardinality({i \in Inv : pc[i] # "idle"})

\* the transport calls mcp_tool(context)
Invoke(i, intent) ==
    /\ pc[i] = "idle"
    /\ Calls < MaxCalls
    /\ pc' = [pc EXCEPT ![i] = "translate"]
    /\ context' = [context EXCEPT ![i] = intent]
    /\ UNCHANGED <<MCP_AVAILABLE, odata_query, access_token, odata_response,
                   result, translated_by, distilled_by, net, served>>

\* a slip: the delegated failure is let out of query_mcp_for_odata
Translate_propagating(i, d) ==
    /\ pc[i] = "translate"
    /\ IF MCP_AVAILABLE /\ d.raises
       THEN /\ result' = [result EXCEPT ![i] = HTTPException(500, "mcp failed")]
            /\ pc' = [pc EXCEPT ![i] = "done"]
            /\ translated_by' = [translated_by EXCEPT ![i] = "fallback"]
            /\ UNCHANGED odata_query
       ELSE /\ odata_query' = [odata_query EXCEPT ![i] =
                  IF MCP_AVAILABLE THEN d.value ELSE generate_odata_query(context[i])]
            /\ translated_by' = [translated_by EXCEPT ![i] =
                  IF MCP_AVAILABLE THEN "mcp" ELSE "LocalMCP"]
            /\ pc' = [pc EXCEPT ![i] = "token"]
            /\ UNCHANGED result
    /\ UNCHANGED <<MCP_AVAILABLE, context, access_token, odata_response,
                   distilled_by, net, served>>

\* query_mcp_for_odata(context); d is what the external library does
Translate(i, d) ==
    /\ pc[i] = "translate"
    /\ IF MCP_AVAILABLE /\ ~d.raises
       THEN /\ odata_query' = [odata_query EXCEPT ![i] = d.value]
            /\ translated_by' = [translated_by EXCEPT ![i] = "mcp"]
       ELSE /\ odata_query' = [odata_query EXCEPT ![i] = generate_odata_query(context[i])]
            /\ translated_by' = [translated_by EXCEPT ![i] =
                  IF MCP_AVAILABLE THEN "fallback" ELSE "LocalMCP"]
    /\ pc' = [pc EXCEPT ![i] = "token"]
    /\ UNCHANGED <<MCP_AVAILABLE, context, access_token, odata_response,
                   result, distilled_by, net, served>>

\* call_odata up to line 130: get_access_token posts and gets the answer r
TokenPost(i, r) ==
    /\ pc[i] = "token"
    /\ net' = [net EXCEPT ![i] = Append(@, Request("POST", token_url, "", r))]
    /\ LET tok == get_access_token(r)
       IN  IF tok.raised
           THEN /\ result' = [result EXCEPT ![i] = HTTPException(500, tok.error)]
                /\ pc' = [pc EXCEPT ![i] = "done"]
                /\ UNCHANGED access_token
           ELSE /\ access_token' = [access_token EXCEPT ![i] = tok.value]
                /\ pc' = [pc EXCEPT ![i] = "get"]
                /\ UNCHANGED result
    /\ UNCHANGED <<MCP_AVAILABLE, context, odata_query, odata_response,
                   translated_by, distilled_by, served>>

\* call_odata from line 134: the GET and its answer r
OdataGet(i, r) ==
    /\ pc[i] = "get"
    /\ net' = [net EXCEPT ![i] =
                  Append(@, Request("GET", full_url(odata_query[i]), Authorization(i), r))]
    /\ IF r.raises
       THEN /\ result' = [result EXCEPT ![i] = HTTPException(500, r.error)]
            /\ pc' = [pc EXCEPT ![i] = "done"]
            /\ UNCHANGED odata_response
       ELSE /\ odata_response' = [odata_response EXCEPT ![i] = NormalizeResponse(r)]
            /\ pc' = [pc EXCEPT ![i] = "distill"]
            /\ UNCHANGED result
    /\ UNCHANGED <<MCP_AVAILABLE, context, odata_query, access_token,
                   translated_by, distilled_by, served>>

\* query_mcp_for_changes(odata_response) and the lines 161-163
Distill(i, d) ==
    /\ pc[i] = "distill"
    /\ LET processed_context ==
               IF MCP_AVAILABLE /\ ~d.raises THEN d.value
               ELSE process_odata_response(odata_response[i])
       IN  result' = [result EXCEPT ![i] = McpResponse(processed_context)]
    /\ distilled_by' = [distilled_by EXCEPT ![i] =
          IF MCP_AVAILABLE /\ ~d.raises THEN "mcp"
          ELSE IF MCP_AVAILABLE THEN "fallback" ELSE "LocalMCP"]
    /\ pc' = [pc EXCEPT ![i] = "done"]
    /\ UNCHANGED <<MCP_AVAILABLE, context, odata_query, access_token,
                   odata_response, translated_by, net, served>>

\* what is remembered of an invocation that has returned
Outcome(i) ==
    [status_code |-> result[i].status_code, kind |-> result[i].kind,
     detail |-> result[i].detail, requests |-> Len(net[i])]

\* mcp_tool returns or raises: its locals are gone
Return(i) ==
    /\ pc[i] = "done"
    /\ served' = Append(served, Outcome(i))
    /\ pc' = [pc EXCEPT ![i] = "idle"]
    /\ context' = [context EXCEPT ![i] = ""]
    /\ odata_query' = [odata_query EXCEPT ![i] = ""]
    /\ access_token' = [access_token EXCEPT ![i] = PyNone]
    /\ odata_response' = [odata_response EXCEPT ![i] = PyNone]
    /\ result' = [result EXCEPT ![i] = NoResult]
    /\ translated_by' = [translated_by EXCEPT ![i] = ""]
    /\ distilled_by' = [distilled_by EXCEPT ![i] = ""]
    /\ net' = [net EXCEPT ![i] = <<>>]
    /\ UNCHANGED MCP_AVAILABLE

\* ------------------------------------------------------------------- inputs

\* the intents of the pipeline's specification
Intents == {"", "get top 5 customers", "top customers", "list customers"}

\* what an external translator may do
TranslateOutcomes == {DelegateRaises, DelegateReturns("CustomersV3?$top=3")}

\* what an external distiller may do
DistillOutcomes == {DelegateRaises, DelegateReturns("1 customer")}

TokenJson(tok) == JsonResponse(200, PyDict(<<Entry("access_token", PyStr(tok))>>))

\* the identity endpoint's answers
TokenResponses ==
    { TokenJson("tA"), TokenJson("tB"),
      JsonResponse(200, PyDict(<<>>)),
      TextResponse(200, "<html>"),
      TextResponse(401, "denied"),
      TextResponse(500, "a\nb"),
      Raises("connection refused") }

RowsPayload(rows) == PyDict(<<Entry("value", PyList(rows))>>)

ContosoRow ==
    PyDict(<<Entry("AccountNumber", PyStr("A1")), Entry("DisplayName", PyStr("Contoso"))>>)

\* the ERP endpoint's answers
OdataResponses ==
    { JsonResponse(200, RowsPayload(<<ContosoRow>>)),
      JsonResponse(200, RowsPayload(<<>>)),
      TextResponse(200, "<a/>"),
      TextResponse(200, "a\nb"),
      TextResponse(404, "Not Found"),
      TextResponse(500, "it's\n"),
      Raises("read timed out") }

\* ------------------------------------------------- the pipeline, one at a time

\* the tool function is synchronous: the server runs one invocation at a time
OthersIdle(i) == \A j \in Inv \ {i} : pc[j] = "idle"

Next ==
    \/ \E i \in Inv, intent \in Intents : OthersIdle(i) /\ Invoke(i, intent)
    \/ \E i \in Inv, d \in TranslateOutcomes : OthersIdle(i) /\ Translate(i, d)
    \/ \E i \in Inv, r \in TokenResponses : OthersIdle(i) /\ TokenPost(i, r)
    \/ \E i \in Inv, r \in OdataResponses : OthersIdle(i) /\ OdataGet(i, r)
    \/ \E i \in Inv, d \in DistillOutcomes : OthersIdle(i) /\ Distill(i, d)
    \/ \E i \in Inv : OthersIdle(i) /\ Return(i)

Spec == Init /\ [][Next]_vars

\* ------------------------------------------ the pipeline, invocations interleaved

ConcIntents == {"get top 5 customers"}

ConcTokenResponses ==
    { TokenJson("tA"), TokenJson("tB"), JsonResponse(200, PyDict(<<>>)),
      TextResponse(401, "denied") }

ConcOdataResponses ==
    { JsonResponse(200, RowsPayload(<<ContosoRow>>)), TextResponse(404, "Not Found"),
      Raises("read timed out") }

\* one thread per invocation: the steps of different invocations interleave
ConcNext ==
    \/ \E i \in Inv, intent \in ConcIntents : Invoke(i, intent)
    \/ \E i \in Inv : Translate(i, DelegateRaises)
    \/ \E i \in Inv, r \in ConcTokenResponses : TokenPost(i, r)
    \/ \E i \in Inv, r \in ConcOdataResponses : OdataGet(i, r)
    \/ \E i \in Inv : Distill(i, DelegateRaises)

ConcSpec == Init /\ [][ConcNext]_vars

\* ------------------------------------------------- the translator's inputs

Frags == {"top", "Top ", "stop ", " ", "5", "12", "x", " customers"}

RECURSIVE IntentsUpTo(_)
\* the texts of at most n fragments
IntentsUpTo(n) ==
    IF n = 0 THEN {""}
    ELSE LET shorter == IntentsUpTo(n - 1)
         IN  shorter \cup {a \o f : a \in shorter, f \in Frags}

FragIntents == IntentsUpTo(MaxFrags)

TranslateNext ==
    \/ \E intent \in FragIntents : Invoke(1, intent)
    \/ \E d \in TranslateOutcomes : Translate(1, d)

TranslateSpec == Init /\ [][TranslateNext]_vars

\* -------------------------------------------------- the distiller's inputs

FieldVals == {PyNone, PyStr(""), PyInt(0), PyStr("A1"), PyInt(7)}

RECURSIVE RowEntries(_, _, _)
\* the entries of a row of at most n fields, its keys from keys[from] on
RowEntries(n, keys, from) ==
    IF n = 0 \/ from > Len(keys) THEN {<<>>}
    ELSE {<<>>} \cup
         UNION { { <<Entry(keys[k], v)>> \o rest : rest \in RowEntries(n - 1, keys, k + 1) }
                 : k \in from..Len(keys), v \in FieldVals }

\* the rows of at most MaxFields identifier fields, those of at most MaxFields
\* name fields, and those of one field of each kind
RowPool ==
    {PyDict(e) : e \in RowEntries(MaxFields, IdKeys, 1)}
    \cup {PyDict(e) : e \in RowEntries(MaxFields, NameKeys, 1)}
    \cup {PyDict(a \o b) : a \in RowEntries(1, IdKeys, 1), b \in RowEntries(1, NameKeys, 1)}

\* rows for the lists of several rows, and two values that are no rows
ListRows ==
    { ContosoRow, PyDict(<<>>),
      PyDict(<<Entry("PartyNumber", PyStr("C001")), Entry("Name", PyStr("Acme"))>>),
      PyInt(3), PyNone }

RECURSIVE RowLists(_)
\* the lists of at most n rows of ListRows
RowLists(n) ==
    IF n = 0 THEN {<<>>}
    ELSE LET shorter == RowLists(n - 1)
         IN  shorter \cup {Append(l, r) : l \in shorter, r \in ListRows}

BodyChars == {"a", "'", "\"", "\\", "\n"}

RECURSIVE BodiesUpTo(_)
\* the bodies of at most n characters
BodiesUpTo(n) ==
    IF n = 0 THEN {""}
    ELSE LET shorter == BodiesUpTo(n - 1)
         IN  shorter \cup {b \o c : b \in shorter, c \in BodyChars}

\* JSON values that are no dict with a row list
OtherJson ==
    { PyStr("<feed/>"), PyNone, PyList(<<>>), PyDict(<<>>),
      PyDict(<<Entry("value", PyNone)>>),
      PyDict(<<Entry("value", PyDict(<<>>))>>) }

DistillResponses ==
    {JsonResponse(200, RowsPayload(<<r>>)) : r \in RowPool}
    \cup {JsonResponse(200, RowsPayload(l)) : l \in RowLists(MaxRows)}
    \cup {JsonResponse(200, v) : v \in OtherJson}
    \cup {TextResponse(code, b) : code \in {200, 404, 503}, b \in BodiesUpTo(MaxBody) \ {""}}

DistillNext ==
    \/ Invoke(1, "list customers")
    \/ Translate(1, DelegateRaises)
    \/ TokenPost(1, TokenJson("tA"))
    \/ \E r \in DistillResponses : OdataGet(1, r)
    \/ \E d \in DistillOutcomes : Distill(1, d)

DistillSpec == Init /\ [][DistillNext]_vars

\* ------------------------------------------------------------------- claims

\* the invocation has been translated by LocalMCP.generate_odata_query
TranslatedLocally(i) == translated_by[i] \in {"fallback", "LocalMCP"}

\* the invocation has been distilled by LocalMCP.process_odata_response
DistilledLocally(i) == distilled_by[i] \in {"fallback", "LocalMCP"}

\* the letters "top", one blank and a digit stand at index a of s
TopNAt(s, a) ==
    /\ a + 4 <= Len(s)
    /\ SubSeq(s, a, a + 3) = "top "
    /\ IsDigit(At(s, a + 4))

\* the number written there
NumberAt(s, a) == SubSeq(s, a + 4, DigitRunEnd(s, a + 4))

\* C1 as stated: an intent whose lower-cased text contains "top N" and
\* "customers" is translated to CustomersV3?$top=N, N the number written after
\* "top".
C1_AsStated ==
    \A i \in Inv :
        LET s == Lower(context[i])
        IN  (/\ TranslatedLocally(i)
             /\ Contains(s, "customers")
             /\ \E a \in 1..Len(s) : TopNAt(s, a))
            => \E a \in 1..Len(s) :
                   /\ TopNAt(s, a)
                   /\ odata_query[i] = "CustomersV3?$top=" \o NumberAt(s, a)

\* the word "top" stands at a, white space up to j-1, the digits j..k, and no
\* letter, digit or underscore stands before a or after k
WordTopNumber(s, a, j, k) ==
    /\ a + 2 <= Len(s)
    /\ SubSeq(s, a, a + 2) = "top"
    /\ (a = 1 \/ ~IsWord(At(s, a - 1)))
    /\ j > a + 3
    /\ \A x \in (a + 3)..(j - 1) : IsSpace(At(s, x))
    /\ k >= j
    /\ \A x \in j..k : IsDigit(At(s, x))
    /\ (k = Len(s) \/ ~IsWord(At(s, k + 1)))

HasWordTopNumber(s, a) ==
    /\ a + 2 <= Len(s)
    /\ SubSeq(s, a, a + 2) = "top"
    /\ \E j \in (a + 4)..Len(s) : \E k \in j..Len(s) : WordTopNumber(s, a, j, k)

\* C1, amended: when the lower-cased intent contains "customers" and the word
\* "top" followed by white space and a number N that ends at a word boundary,
\* the path is CustomersV3?$top=N for the first such "top".
C1_FirstWordTopNumber ==
    \A i \in Inv :
        LET s == Lower(context[i])
        IN  (TranslatedLocally(i) /\ Contains(s, "customers"))
            => \A a \in 1..Len(s) :
                   (HasWordTopNumber(s, a) /\ \A h \in 1..(a - 1) : ~HasWordTopNumber(s, h))
                   => \A j \in (a + 4)..Len(s) : \A k \in j..Len(s) :
                          WordTopNumber(s, a, j, k)
                          => odata_query[i] = "CustomersV3?$top=" \o SubSeq(s, j, k)

\* an upper-case "Top 12 customers" has been translated to $top=12
C1_Witness ==
    \E i \in Inv :
        /\ TranslatedLocally(i)
        /\ context[i] = "Top 12 customers"
        /\ odata_query[i] = "CustomersV3?$top=12"

C3_EmptyIntentRejected ==
    \A i \in Inv :
        (pc[i] # "idle" /\ context[i] = "")
        => /\ translated_by[i] = ""
           /\ net[i] = <<>>
           /\ pc[i] = "done" => (result[i].kind = "HTTPException"
                                 /\ result[i].status_code = 400)

\* C4: once the delegated translator has raised, the path is the one LocalMCP
\* gives for the intent, the invocation goes on to the token request, and it
\* ends only after that request was issued.
C4_FallbackOnDelegateFailure ==
    \A i \in Inv :
        translated_by[i] = "fallback"
        => /\ odata_query[i] = generate_odata_query(context[i])
           /\ pc[i] \in {"token", "get", "distill", "done"}
           /\ pc[i] = "done" => net[i] # <<>>

\* an invocation whose delegated translator raised has returned an McpResponse
C4_Witness ==
    \E i \in Inv :
        /\ translated_by[i] = "fallback"
        /\ pc[i] = "done"
        /\ result[i].kind = "McpResponse"
        /\ Len(net[i]) = 2

\* the answer to invocation i's ERP GET, when it has one
HasGetResponse(i) == Len(net[i]) = 2 /\ ~net[i][2].response.raises
GetResponse(i) == net[i][2].response

\* C5 as stated: after a GET answered with a status other than 200 call_odata
\* has returned the error variant, the invocation ends with an McpResponse and
\* the heuristic distiller's text contains the status code and the body.
C5_AsStated ==
    \A i \in Inv :
        (HasGetResponse(i) /\ GetResponse(i).status_code # 200)
        => /\ pc[i] \in {"distill", "done"}
           /\ DictGet(odata_response[i], "status_code") = PyInt(GetResponse(i).status_code)
           /\ DictGet(odata_response[i], "error") = PyStr(GetResponse(i).text)
           /\ pc[i] = "done" => result[i].kind = "McpResponse"
           /\ (pc[i] = "done" /\ DistilledLocally(i))
                  => /\ Contains(result[i].processedContext,
                                 IntStr(GetResponse(i).status_code))
                     /\ Contains(result[i].processedContext, GetResponse(i).text)

\* a body that a Python string literal shows as it is
PlainBody(b) ==
    /\ \A x \in 1..Len(b) : At(b, x) \notin {"\\", "\n", "\r", "\t"}
    /\ ~(Contains(b, "'") /\ Contains(b, "\""))

\* C5, amended: after a GET answered with a status other than 200 call_odata
\* has returned the error variant, the invocation ends with an McpResponse and
\* the heuristic distiller's text is the dict written as Python writes it,
\* {'error': <the body as a string literal>, 'status_code': <the code>}: it
\* contains the status code, and the body itself when the body has no
\* backslash, no control character and not both kinds of quote.
C5_ErrorVariantDistilled ==
    \A i \in Inv :
        (HasGetResponse(i) /\ GetResponse(i).status_code # 200)
        => /\ pc[i] \in {"distill", "done"}
           /\ DictGet(odata_response[i], "status_code") = PyInt(GetResponse(i).status_code)
           /\ DictGet(odata_response[i], "error") = PyStr(GetResponse(i).text)
           /\ pc[i] = "done" => result[i].kind = "McpResponse"
           /\ (pc[i] = "done" /\ DistilledLocally(i))
                  => /\ Contains(result[i].processedContext,
                                 ", 'status_code': " \o IntStr(GetResponse(i).status_code) \o "}")
                     /\ SubSeq(result[i].processedContext, 1, 10) = "{'error': "
                     /\ PlainBody(GetResponse(i).text)
                            => Contains(result[i].processedContext, GetResponse(i).text)

\* a 404 whose body has a quote has been distilled by LocalMCP
C5_Witness ==
    \E i \in Inv :
        /\ HasGetResponse(i)
        /\ GetResponse(i).status_code = 404
        /\ GetResponse(i).text = "a'"
        /\ pc[i] = "done"
        /\ DistilledLocally(i)
        /\ result[i].processedContext = "{'error': \"a'\", 'status_code': 404}"

\* C6 as stated: after a GET answered 200 with a body that is not JSON, the
\* heuristic distiller's text is that body, character for character, and
\* distilling it again changes nothing.
C6_RawTextUnchanged ==
    \A i \in Inv :
        (/\ HasGetResponse(i)
         /\ GetResponse(i).status_code = 200
         /\ ~GetResponse(i).is_json
         /\ pc[i] = "done"
         /\ DistilledLocally(i))
        => /\ result[i].processedContext = GetResponse(i).text
           /\ process_odata_response(PyStr(result[i].processedContext))
                  = result[i].processedContext

\* the value counts as empty: null, the empty string, the number 0
IsEmptyValue(v) ==
    \/ v.type = "NoneType"
    \/ v.type = "str" /\ v.str = ""
    \/ v.type = "int" /\ v.num = 0

RECURSIVE FirstNonEmpty(_, _)
\* the first value of row r, among keys in their order, that is not empty
FirstNonEmpty(r, keys) ==
    IF keys = <<>> THEN "unknown"
    ELSE IF HasKey(r, Head(keys)) /\ ~IsEmptyValue(DictItem(r, Head(keys)))
    THEN Str(DictItem(r, Head(keys)))
    ELSE FirstNonEmpty(r, Tail(keys))

\* the payload is a dict whose "value" is a list of dicts
IsRowList(raw) ==
    /\ raw.type = "dict"
    /\ HasKey(raw, "value")
    /\ DictItem(raw, "value").type = "list"
    /\ \A x \in 1..Len(DictItem(raw, "value").items) :
           DictItem(raw, "value").items[x].type = "dict"

\* C7: for a payload with a row list under "value" the heuristic distiller's
\* text has one line "<id>: <name>" per row, in row order, id the first value
\* that is not empty among PartyNumber, CustomerAccount, AccountNumber, Id,
\* RecId, name the first among Name, PartyLegalName, DisplayName, PartyName,
\* CustomerName, "unknown" standing for either when all are empty; an empty
\* list gives "No customers found in response.".
C7_RowsDistilled ==
    \A i \in Inv :
        (pc[i] = "done" /\ DistilledLocally(i) /\ IsRowList(odata_response[i]))
        => LET rows == DictItem(odata_response[i], "value").items
           IN  result[i].processedContext =
                   IF rows = <<>> THEN "No customers found in response."
                   ELSE JoinLines([x \in 1..Len(rows) |->
                            FirstNonEmpty(rows[x], IdKeys) \o ": "
                                \o FirstNonEmpty(rows[x], NameKeys)])

\* a row whose PartyNumber is empty and whose CustomerAccount and RecId are
\* not has been distilled: the CustomerAccount is its id
C7_Witness ==
    \E i \in Inv :
        /\ pc[i] = "done"
        /\ DistilledLocally(i)
        /\ IsRowList(odata_response[i])
        /\ \E x \in 1..Len(DictItem(odata_response[i], "value").items) :
               LET r == DictItem(odata_response[i], "value").items[x]
               IN  /\ HasKey(r, "CustomerAccount") /\ HasKey(r, "RecId")
                   /\ Truthy(DictItem(r, "CustomerAccount"))
                   /\ Truthy(DictItem(r, "RecId"))
                   /\ DictItem(r, "CustomerAccount") # DictItem(r, "RecId")
        /\ result[i].processedContext = "A1: unknown"

\* C8: every McpResponse carries the distilled text as processedContext and
\* the greeting followed by that text as message; the intent "get top 5
\* customers" is translated to CustomersV3?$top=5 and the single row
\* {AccountNumber: A1, DisplayName: Contoso} is distilled to "A1: Contoso"
\* (both by LocalMCP).
C8_ResponseWrapsDistilledText ==
    \A i \in Inv :
        /\ result[i].kind = "McpResponse"
               => /\ pc[i] = "done"
                  /\ result[i].message =
                         "Hello, here is the information you requested:\n"
                             \o result[i].processedContext
                  /\ DistilledLocally(i)
                         => result[i].processedContext
                                = process_odata_response(odata_response[i])
        /\ (TranslatedLocally(i) /\ context[i] = "get top 5 customers")
               => odata_query[i] = "CustomersV3?$top=5"
        /\ (/\ result[i].kind = "McpResponse"
            /\ DistilledLocally(i)
            /\ odata_response[i] = RowsPayload(<<ContosoRow>>))
               => /\ result[i].processedContext = "A1: Contoso"
                  /\ result[i].message =
                         "Hello, here is the information you requested:\nA1: Contoso"

\* the end-to-end scenario has run
C8_Witness ==
    \E i \in Inv :
        /\ context[i] = "get top 5 customers"
        /\ TranslatedLocally(i)
        /\ Len(net[i]) = 2
        /\ net[i][2].url = "https://erp.example/data/CustomersV3?$top=5"
        /\ DistilledLocally(i)
        /\ odata_response[i] = RowsPayload(<<ContosoRow>>)
        /\ result[i].message = "Hello, here is the information you requested:\nA1: Contoso"

\* the identity endpoint answered invocation i's token request with a status
\* other than 200
TokenRefused(i) ==
    /\ net[i] # <<>>
    /\ ~net[i][1].response.raises
    /\ net[i][1].response.status_code # 200

\* C9: when the identity endpoint answers with a status other than 200 the
\* invocation is over with that one request: no GET, no distiller, no
\* McpResponse, one failure of status 500 whose detail carries the status code
\* and the body; the invocations served after it are not affected.
C9_TokenFailureIsFatal ==
    /\ \A i \in Inv :
           TokenRefused(i)
           => /\ pc[i] = "done"
              /\ Len(net[i]) = 1
              /\ net[i][1].method = "POST"
              /\ distilled_by[i] = ""
              /\ odata_response[i] = PyNone
              /\ result[i].kind = "HTTPException"
              /\ result[i].status_code = 500
              /\ result[i].detail =
                     "Token request failed: " \o IntStr(net[i][1].response.status_code)
                         \o " - " \o net[i][1].response.text
    /\ \A k \in 1..Len(served) :
           /\ served[k].kind \in {"McpResponse", "HTTPException"}
           /\ served[k].kind = "McpResponse" => served[k].requests = 2
           /\ served[k].kind = "HTTPException"
                  => served[k].status_code = 500 /\ served[k].requests \in {1, 2}

\* an invocation refused by the identity endpoint was served, and the next
\* one has returned an McpResponse
C9_Witness ==
    /\ Len(served) >= 1
    /\ served[Len(served)].kind = "HTTPException"
    /\ served[Len(served)].detail = "Token request failed: 401 - denied"
    /\ served[Len(served)].requests = 1
    /\ \E i \in Inv : pc[i] = "done" /\ result[i].kind = "McpResponse"

\* C10: an invocation issues at most one token request and at most one GET,
\* the GET after the token request and with the token that request returned
\* in its Authorization header.
C10_OwnFreshToken ==
    \A i \in Inv :
        /\ Len(net[i]) <= 2
        /\ Len(net[i]) >= 1
               => /\ net[i][1].method = "POST"
                  /\ net[i][1].url = token_url
        /\ Len(net[i]) = 2
               => /\ net[i][2].method = "GET"
                  /\ ~net[i][1].response.raises
                  /\ net[i][1].response.status_code = 200
                  /\ net[i][1].response.is_json
                  /\ net[i][2].authorization =
                         "Bearer " \o Str(DictGet(net[i][1].response.json, "access_token"))

\* two invocations in flight at once were given different tokens, and one of
\* them has sent its GET with its own
C10_Witness ==
    \E i, j \in Inv :
        /\ i # j
        /\ pc[i] = "get"
        /\ access_token[i] = PyStr("tA")
        /\ Len(net[j]) = 2
        /\ net[j][2].authorization = "Bearer tB"

====
